---- MODULE Spec2Model ----
(***************************************************************************)
(* Model of src/main.py: the Kaggle submission watcher.                    *)
(*                                                                         *)
(* Python strings are sequences of one-character strings, so that          *)
(* lower(), replace() and the digit filter are computed and not assumed.   *)
(* Python values read from a submission record are tagged records          *)
(* [t, n, s]: t the type, n the number (int, datetime in seconds), s the   *)
(* characters (str, enum member name).                                     *)
(***************************************************************************)
EXTENDS Integers, Sequences, FiniteSets, TLC

VARIABLES
    pc,            \* position of the process in main / run_watcher
    webhook_url,   \* --slack-webhook ("" when not configured)
    interval_min,  \* --interval-min
    track,         \* run_watcher: track, ref -> entry
    subs,          \* run_watcher: subs, the records of the last successful fetch
    i,             \* index of the record the running for-loop is at
    now_utc,       \* run_watcher: now_utc of the reporting pass
    clock,         \* wall clock, in seconds; only a fetch and a sleep take time
    cycle,         \* number of iterations of the while loop begun
    fetched,       \* outcome of the fetch of the current iteration
    sent,          \* slack_post calls of the current iteration, in order
    track0,        \* history: track at the end of the last successful iteration
    fails,         \* history: failed fetches in a row up to this iteration
    notes,         \* history: per ref, count and last status of notifications
    same,          \* history: per ref, every poll so far gave the same records
    e2e,           \* history: per ref, stage of the running -> complete scenario
    order,         \* history: kinds of the posts so far, a run of status posts once
    prev_run,      \* history: per ref, status last notified by the runs before
    run            \* history: number of the run of the process, from 1

vars == <<pc, webhook_url, interval_min, track, subs, i, now_utc, clock,
          cycle, fetched, sent, track0, fails, notes, same, e2e, order,
          prev_run, run>>

\* What the watcher loop never touches.
aside == <<prev_run, run>>

\* ---------------------------------------------------------------- bounds

MaxCycles == 3
MaxSubs == 2
MaxInterval == 2
FetchLatency == 60
StartTime == 600

\* ------------------------------------------------------- Python values

PyNone == [t |-> "None", n |-> 0, s |-> <<>>]
PyInt(k) == [t |-> "int", n |-> k, s |-> <<>>]
PyStr(cs) == [t |-> "str", n |-> 0, s |-> cs]
PyEnum(cs) == [t |-> "enum", n |-> 0, s |-> cs]
PyTime(k) == [t |-> "datetime", n |-> k, s |-> <<>>]

\* The value of last_reported_status before any report: None equals no str.
None == <<"<None>">>

Digits == <<"0", "1", "2", "3", "4", "5", "6", "7", "8", "9">>
UpperCase == <<"A", "B", "C", "D", "E", "F", "G", "H", "I", "J", "K", "L", "M",
               "N", "O", "P", "Q", "R", "S", "T", "U", "V", "W", "X", "Y", "Z">>
LowerCase == <<"a", "b", "c", "d", "e", "f", "g", "h", "i", "j", "k", "l", "m",
               "n", "o", "p", "q", "r", "s", "t", "u", "v", "w", "x", "y", "z">>

IsDigit(ch) == \E k \in DOMAIN Digits : Digits[k] = ch
DigitVal(ch) == (CHOOSE k \in DOMAIN Digits : Digits[k] = ch) - 1

LowerChar(ch) ==
    IF \E k \in DOMAIN UpperCase : UpperCase[k] = ch
    THEN LowerCase[CHOOSE k \in DOMAIN UpperCase : UpperCase[k] = ch]
    ELSE ch

UpperChar(ch) ==
    IF \E k \in DOMAIN LowerCase : LowerCase[k] = ch
    THEN UpperCase[CHOOSE k \in DOMAIN LowerCase : LowerCase[k] = ch]
    ELSE ch

\* str.lower()
Lower(cs) == [k \in DOMAIN cs |-> LowerChar(cs[k])]

\* Whether the characters of cs from position k on start with pat.
StartsAt(cs, k, pat) ==
    /\ k + Len(pat) - 1 <= Len(cs)
    /\ \A j \in DOMAIN pat : cs[k + j - 1] = pat[j]

RECURSIVE ReplaceFrom(_, _, _)
ReplaceFrom(cs, k, pat) ==
    IF k > Len(cs) THEN <<>>
    ELSE IF StartsAt(cs, k, pat) THEN ReplaceFrom(cs, k + Len(pat), pat)
    ELSE <<cs[k]>> \o ReplaceFrom(cs, k + 1, pat)

\* str.replace(pat, ""), pat not empty
Remove(cs, pat) == ReplaceFrom(cs, 1, pat)

RECURSIVE DecimalValue(_)
DecimalValue(ds) ==
    IF ds = <<>> THEN 0
    ELSE 10 * DecimalValue(SubSeq(ds, 1, Len(ds) - 1)) + DigitVal(ds[Len(ds)])

RECURSIVE DecimalText(_)
DecimalText(k) ==
    IF k < 0 THEN <<"-">> \o DecimalText(0 - k)
    ELSE IF k < 10 THEN <<Digits[k + 1]>>
    ELSE DecimalText(k \div 10) \o <<Digits[(k % 10) + 1]>>

OnlyDigits(cs) == SelectSeq(cs, IsDigit)

\* Whether int(str) succeeds: an optional sign and then digits only.
IntLiteral(cs) ==
    LET body == IF cs # <<>> /\ cs[1] \in {"-", "+"} THEN Tail(cs) ELSE cs
    IN  body # <<>> /\ OnlyDigits(body) = body

IntOfLiteral(cs) ==
    IF cs[1] = "-" THEN 0 - DecimalValue(Tail(cs))
    ELSE IF cs[1] = "+" THEN DecimalValue(Tail(cs))
    ELSE DecimalValue(cs)

c_SubmissionStatus == <<"S", "u", "b", "m", "i", "s", "s", "i", "o", "n",
                        "S", "t", "a", "t", "u", "s", ".">>
c_None == <<"N", "o", "n", "e">>
c_complete == <<"c", "o", "m", "p", "l", "e", "t", "e">>
c_completed == <<"c", "o", "m", "p", "l", "e", "t", "e", "d">>
c_uploading == <<"u", "p", "l", "o", "a", "d", "i", "n", "g">>
c_pending == <<"p", "e", "n", "d", "i", "n", "g">>
c_queued == <<"q", "u", "e", "u", "e", "d">>
c_running == <<"r", "u", "n", "n", "i", "n", "g">>
c_error == <<"e", "r", "r", "o", "r">>
c_failed == <<"f", "a", "i", "l", "e", "d">>
c_no_detail == <<"(", "n", "o", " ", "d", "e", "t", "a", "i", "l", ")">>

\* str(v)
str(v) ==
    CASE v.t = "str" -> v.s
      [] v.t = "enum" -> c_SubmissionStatus \o v.s
      [] v.t = "int" -> DecimalText(v.n)
      [] v.t = "None" -> c_None
      [] OTHER -> <<>>

\* ------------------------------------------------------------ utilities

\* v not in (None, "", "-", em dash); the em dash is the one character "emdash"
Sentinel(v) ==
    \/ v.t = "None"
    \/ v.t = "str" /\ v.s \in {<<>>, <<"-">>, <<"emdash">>}

RECURSIVE get_attr(_, _, _)
get_attr(s, names, default) ==
    IF names = <<>> THEN default
    ELSE IF Head(names) \in DOMAIN s /\ ~Sentinel(s[Head(names)])
         THEN s[Head(names)]
         ELSE get_attr(s, Tail(names), default)

get_ref(s) ==
    LET r == get_attr(s, <<"_ref", "ref">>, PyNone)
        digits == OnlyDigits(str(r))
    IN  IF r.t = "int" THEN r.n
        ELSE IF r.t = "str" /\ IntLiteral(r.s) THEN IntOfLiteral(r.s)
        ELSE IF digits # <<>> THEN DecimalValue(digits) ELSE 0 - 1

\* A slip: the label is compared as it is written, lower() is missing.
status_text_CaseSensitive(s) ==
    LET st == get_attr(s, <<"_status", "status">>, PyStr(<<>>))
        name == IF st.t = "enum" THEN st.s ELSE str(st)
        name_lower == Remove(name, c_SubmissionStatus)
    IN  IF name_lower \in {c_completed, c_complete} THEN c_complete
        ELSE IF name_lower \in {c_uploading} THEN c_pending
        ELSE name_lower

status_text(s) ==
    LET st == get_attr(s, <<"_status", "status">>, PyStr(<<>>))
        name == IF st.t = "enum" THEN st.s ELSE str(st)
        name_lower == Lower(Remove(name, c_SubmissionStatus))
    IN  IF name_lower \in {c_completed, c_complete} THEN c_complete
        ELSE IF name_lower \in {c_uploading} THEN c_pending
        ELSE name_lower

\* A slip: the minimum of one minute is missing.
elapsed_minutes_NoFloor(from_dt, to_dt) == (to_dt - from_dt) \div 60

\* A slip: the minutes are rounded up and not down.
elapsed_minutes_RoundsUp(from_dt, to_dt) ==
    LET mins == ((to_dt - from_dt) \div 60) + 1
    IN  IF mins > 1 THEN mins ELSE 1

elapsed_minutes(from_dt, to_dt) ==
    LET mins == (to_dt - from_dt) \div 60
    IN  IF mins > 1 THEN mins ELSE 1

\* --------------------------------------------------------------- source

\* A submission record of the Kaggle API: attribute name -> Python value.
Submission(ref, status, date) ==
    ("_ref" :> ref) @@ ("_status" :> status) @@ ("_date" :> date)

\* The record of another client version: public names, no date attribute.
PlainSubmission(ref, status) ==
    ("ref" :> ref) @@ ("status" :> status)

c_RUNNING == <<"R", "U", "N", "N", "I", "N", "G">>
c_COMPLETE == <<"C", "O", "M", "P", "L", "E", "T", "E">>
c_ERROR == <<"E", "R", "R", "O", "R">>

SourceStatuses == {PyEnum(c_RUNNING), PyEnum(c_COMPLETE), PyEnum(c_ERROR)}

\* A submission date half a minute after the start of the watcher: after
\* the clock of a first fetch that returns at once.
LaterDate == StartTime + 30

\* What competition_submissions may hold: submission 1 in every status,
\* with no date; a submission whose reference is "s-02", running with a
\* date or completed with no date; a record with no usable reference.
SourceRecords ==
    {Submission(PyInt(1), st, PyNone) : st \in SourceStatuses}
    \cup {Submission(PyStr(<<"s", "-", "0", "2">>), PyEnum(c_RUNNING), PyTime(LaterDate)),
          PlainSubmission(PyStr(<<"s", "-", "0", "2">>), PyStr(c_completed)),
          PlainSubmission(PyStr(<<"-">>), PyEnum(c_RUNNING))}

RECURSIVE SeqsUpTo(_, _)
SeqsUpTo(S, n) ==
    IF n = 0 THEN {<<>>}
    ELSE LET shorter == SeqsUpTo(S, n - 1)
         IN  shorter \cup {Append(q, x) : q \in {r \in shorter : Len(r) = n - 1}, x \in S}

FetchResults == SeqsUpTo(SourceRecords, MaxSubs)

Refs == {get_ref(s) : s \in SourceRecords} \ {0 - 1}

\* References of every kind get_ref tells apart: no reference, an integer,
\* and every string of up to MaxRefLen characters of RefAlphabet, among
\* them the unusable "" and "-", signed and unsigned literals, and digits
\* mixed with other characters.
MaxRefLen == 3
MaxRefInt == 2
RefAlphabet == {"s", "-", "0", "1", "9"}
RefInputs ==
    {PyNone} \cup {PyInt(n) : n \in (0 - 1)..MaxRefInt}
    \cup {PyStr(cs) : cs \in SeqsUpTo(RefAlphabet, MaxRefLen)}
RefRecords == {Submission(r, PyEnum(c_RUNNING), PyNone) : r \in RefInputs}

\* A label in every letter case.
CaseVariants(cs) ==
    {[k \in DOMAIN cs |-> IF k \in U THEN UpperChar(cs[k]) ELSE cs[k]] :
        U \in SUBSET DOMAIN cs}

\* Status values of every kind status_text tells apart: the labels the code
\* names and one it does not, in every letter case, as a plain string, as
\* a string with the qualifier of the enumeration, and as a member of the
\* enumeration; and no status at all.
StatusLabels ==
    UNION {CaseVariants(cs) : cs \in {c_complete, c_completed, c_uploading,
                                      c_pending, c_queued, c_running,
                                      c_error, c_failed}}
StatusInputs ==
    {PyNone}
    \cup {PyStr(l) : l \in StatusLabels}
    \cup {PyStr(c_SubmissionStatus \o l) : l \in StatusLabels}
    \cup {PyEnum(l) : l \in StatusLabels}
StatusRecords == {Submission(PyInt(1), st, PyNone) : st \in StatusInputs}

\* Records in error: with a description, under either name, with an
\* unusable one, and with none.
c_oom == <<"o", "o", "m">>
ErrorRecords ==
    {Submission(PyInt(1), PyEnum(c_ERROR), PyNone)
        @@ ("_error_description" :> PyStr(c_oom)),
     Submission(PyInt(1), PyEnum(c_ERROR), PyNone)
        @@ ("_error_description" :> PyStr(<<"-">>)),
     PlainSubmission(PyInt(1), PyEnum(c_ERROR))
        @@ ("errorDescription" :> PyStr(c_oom))}

InputRecords == RefRecords \cup StatusRecords \cup ErrorRecords
InputRefs == ({get_ref(s) : s \in InputRecords} \ {0 - 1}) \cup Refs

\* lines 162, 163, 166 and 212: what the loops read of a record. For the
\* records of SourceRecords it is computed once and looked up.
date_of(s) == get_attr(s, <<"_date", "date">>, PyNone)
err_of(s) ==
    get_attr(s, <<"_error_description", "errorDescription">>, PyStr(c_no_detail))
RefTable == [s \in SourceRecords |-> get_ref(s)]
StatusTable == [s \in SourceRecords |-> status_text(s)]
DateTable == [s \in SourceRecords |-> date_of(s)]
DetailTable == [s \in SourceRecords |-> err_of(s)]
RefOf(s) == IF s \in SourceRecords THEN RefTable[s] ELSE get_ref(s)
StatusOf(s) == IF s \in SourceRecords THEN StatusTable[s] ELSE status_text(s)
DateOf(s) == IF s \in SourceRecords THEN DateTable[s] ELSE date_of(s)
DetailOf(s) == IF s \in SourceRecords THEN DetailTable[s] ELSE err_of(s)

\* ---------------------------------------------------------------- slack

\* slack_post returns in every case: nothing is posted without a webhook,
\* and an exception of requests.post or raise_for_status is caught.
slack_post(url) ==
    IF url = "" THEN {"not_configured"} ELSE {"delivered", "failed"}

Message(kind, ref, status, el_min, detail, outcome) ==
    [kind |-> kind, ref |-> ref, status |-> status, el_min |-> el_min,
     detail |-> detail, outcome |-> outcome]

\* ------------------------------------------------------------ run_watcher

\* A slip: a back-off, the sleep is twice the interval.
interval_sec_Doubled(n) == n * 120

\* line 145
interval_sec(n) == n * 60

\* A slip: the handler sits inside the loop, which goes on after it.
AfterShutdown_Resumes == "fetch"

\* lines 237-239: main returns after the handler.
AfterShutdown == "exit"

\* A slip: the minimum is taken to be 0.
IntervalValid_OffByOne(n) == ~(n < 0)

IntervalValid(n) == ~(n < 1)

\* A slip: every new entry counts as reported.
NewEntry_SeedsAll(submit_dt, seen) ==
    [submit_time |-> submit_dt,
     last_seen_status |-> seen,
     last_reported_status |-> seen]

NewEntry(submit_dt, seen) ==
    [submit_time |-> submit_dt,
     last_seen_status |-> seen,
     last_reported_status |-> IF seen = c_complete THEN c_complete ELSE None]

\* A slip: the status of a ref seen again is not taken.
SeenAgain_KeepsFirst(info, seen) == info

\* A slip: seeing a ref again forgets what was reported for it.
SeenAgain_ForgetsReport(info, seen) ==
    [info EXCEPT !.last_seen_status = seen, !.last_reported_status = None]

SeenAgain(info, seen) == [info EXCEPT !.last_seen_status = seen]

\* A slip: the first status of an entry is never reported.
Changed_NotTheFirst(seen, reported) == ~(seen = reported) /\ ~(reported = None)

\* A slip: every record is reported in every iteration.
Changed_Always(seen, reported) == TRUE

Changed(seen, reported) == ~(seen = reported)

\* A slip: a checkpoint, the run starts from what the runs before notified.
TrackAtStart_FromCheckpoint ==
    [r \in {x \in DOMAIN prev_run : prev_run[x] # None} |->
        [submit_time |-> clock,
         last_seen_status |-> prev_run[r],
         last_reported_status |-> prev_run[r]]]

\* line 148: track = {}
TrackAtStart == <<>>

\* A slip: the test of line 170 is missing, every record makes a new entry.
UpdatedTrack_Overwrites(tr, ref, submit_dt, seen) ==
    [x \in DOMAIN tr \cup {ref} |->
        IF x = ref THEN NewEntry(submit_dt, seen) ELSE tr[x]]

\* lines 170-175
UpdatedTrack(tr, ref, submit_dt, seen) ==
    [x \in DOMAIN tr \cup {ref} |->
        IF x # ref THEN tr[x]
        ELSE IF ref \notin DOMAIN tr THEN NewEntry(submit_dt, seen)
        ELSE SeenAgain(tr[ref], seen)]

\* A slip: of the three statuses of a submission under way, only running
\* gets the hourglass.
NotificationKind_RunningOnly(seen) ==
    IF seen \in {c_running} THEN "hourglass"
    ELSE IF seen = c_complete THEN "complete"
    ELSE IF seen = c_error THEN "error"
    ELSE "info"

\* lines 196-215
NotificationKind(seen) ==
    IF seen \in {c_pending, c_queued, c_running} THEN "hourglass"
    ELSE IF seen = c_complete THEN "complete"
    ELSE IF seen = c_error THEN "error"
    ELSE "info"

\* A slip: a status counts as reported only when Slack took the message.
Reported_OnlyIfDelivered(info, seen, outcome) ==
    IF outcome = "delivered" THEN [info EXCEPT !.last_reported_status = seen]
    ELSE info

\* A slip: line 217 is missing.
Reported_Forgotten(info, seen, outcome) == info

Reported(info, seen, outcome) == [info EXCEPT !.last_reported_status = seen]

\* A slip: the except branch starts over with an empty map.
TrackAfterFetchError_Cleared(tr) == <<>>

\* A slip: the except branch forgets what was reported.
TrackAfterFetchError_ForgetsReports(tr) ==
    [r \in DOMAIN tr |-> [tr[r] EXCEPT !.last_reported_status = None]]

\* lines 155-158 do not touch track.
TrackAfterFetchError(tr) == tr

Put(f, k, v) == [x \in DOMAIN f \cup {k} |-> IF x = k THEN v ELSE f[x]]

\* ------------------------------------------------------------- history

\* The records of a fetch that belong to one ref, and their statuses.
RecordsOf(records, ref) == SelectSeq(records, LAMBDA s : RefOf(s) = ref)
StatusesOf(records, ref) ==
    [k \in DOMAIN RecordsOf(records, ref) |-> StatusOf(RecordsOf(records, ref)[k])]

\* same[ref]: since ref was first observed, every successful fetch has
\* returned the same records for it.
SameAfter(result) ==
    [r \in Refs |->
        IF r \notin DOMAIN track THEN TRUE
        ELSE same[r] /\ RecordsOf(result, r) = RecordsOf(subs, r)]

\* e2e[ref]: 1 in the iteration that first observes ref, as running; 2 in
\* the next iteration when its fetch shows ref complete; 3 in every later
\* iteration whose fetch returns for ref what the one before did; else 0.
StageAfter(result) ==
    [r \in Refs |->
        IF r \notin DOMAIN track /\ StatusesOf(result, r) = <<c_running>> THEN 1
        ELSE IF e2e[r] = 1 /\ fetched = "ok"
                /\ StatusesOf(result, r) = <<c_complete>> THEN 2
        ELSE IF e2e[r] \in {2, 3} /\ fetched = "ok"
                /\ RecordsOf(result, r) = RecordsOf(subs, r) THEN 3
        ELSE 0]

\* order after one more post of a kind: "startup", "status" or "shutdown".
Posted(ord, kind) ==
    IF kind = "status" /\ ord # <<>> /\ ord[Len(ord)] = "status" THEN ord
    ELSE Append(ord, kind)

\* The status notifications of the current iteration that are about ref.
MessagesOf(ref) ==
    SelectSeq(sent, LAMBDA m : m.kind \notin {"startup", "shutdown"} /\ m.ref = ref)

Init ==
    /\ pc = "validate"
    /\ webhook_url \in {"", "https://hooks.slack.com/services/T"}
    /\ interval_min \in (0 - 1)..MaxInterval
    /\ track = <<>>
    /\ subs = <<>>
    /\ i = 0
    /\ now_utc = 0
    /\ clock = StartTime
    /\ cycle = 0
    /\ fetched = "none"
    /\ sent = <<>>
    /\ track0 = <<>>
    /\ fails = 0
    /\ notes = [r \in Refs |-> [count |-> 0, last |-> None]]
    /\ same = [r \in Refs |-> TRUE]
    /\ e2e = [r \in Refs |-> 0]
    /\ order = <<>>
    /\ prev_run = [r \in Refs |-> None]
    /\ run = 1

\* lines 142-143
Validate ==
    /\ pc = "validate"
    /\ pc' = IF IntervalValid(interval_min) THEN "authenticate" ELSE "ValueError"
    /\ UNCHANGED <<webhook_url, interval_min, track, subs, i, now_utc, clock,
                   cycle, fetched, sent, track0, fails, notes, same, e2e>>
    /\ UNCHANGED order
    /\ UNCHANGED aside

\* lines 145-146: api.authenticate() returns, or raises when it finds no
\* credentials.
Authenticate ==
    /\ pc = "authenticate"
    /\ pc' \in {"startup", "AuthError"}
    /\ UNCHANGED <<webhook_url, interval_min, track, subs, i, now_utc, clock,
                   cycle, fetched, sent, track0, fails, notes, same, e2e>>
    /\ UNCHANGED order
    /\ UNCHANGED aside

\* lines 148-149
Startup ==
    /\ pc = "startup"
    /\ \E outcome \in slack_post(webhook_url) :
          sent' = Append(sent, Message("startup", 0, None, 0, None, outcome))
    /\ track' = TrackAtStart
    /\ pc' = "fetch"
    /\ UNCHANGED <<webhook_url, interval_min, subs, i, now_utc, clock, cycle,
                   fetched, track0, fails, notes, same, e2e>>
    /\ order' = Posted(order, "startup")
    /\ UNCHANGED aside

\* lines 153-154: the fetch returns.
FetchOk ==
    /\ pc = "fetch"
    /\ cycle < MaxCycles
    /\ \E result \in FetchResults :
          /\ subs' = result
          /\ same' = SameAfter(result)
          /\ e2e' = StageAfter(result)
    /\ \E latency \in {0, FetchLatency} : clock' = clock + latency
    /\ cycle' = cycle + 1
    /\ fetched' = "ok"
    /\ fails' = IF fetched = "error" THEN fails ELSE 0
    /\ sent' = <<>>
    /\ track0' = IF fetched = "error" THEN track0 ELSE track
    /\ i' = 1
    /\ pc' = "update"
    /\ UNCHANGED <<webhook_url, interval_min, track, now_utc, notes>>
    /\ UNCHANGED order
    /\ UNCHANGED aside

\* lines 155-158: the fetch raises; up to the sleep.
FetchError ==
    /\ pc = "fetch"
    /\ cycle < MaxCycles
    /\ \E latency \in {0, FetchLatency} : clock' = clock + latency
    /\ cycle' = cycle + 1
    /\ fetched' = "error"
    /\ fails' = IF fetched = "error" THEN fails + 1 ELSE 1
    /\ sent' = <<>>
    /\ track0' = IF fetched = "error" THEN track0 ELSE track
    /\ track' = TrackAfterFetchError(track)
    /\ e2e' = [r \in Refs |-> IF e2e[r] = 1 THEN 0 ELSE e2e[r]]
    /\ pc' = "sleep"
    /\ UNCHANGED <<webhook_url, interval_min, subs, i, now_utc, notes, same>>
    /\ UNCHANGED order
    /\ UNCHANGED aside

\* lines 161-175, one record of the update loop
UpdateRecord ==
    /\ pc = "update"
    /\ i <= Len(subs)
    /\ LET s == subs[i]
           ref == RefOf(s)
           seen == StatusOf(s)
           date == DateOf(s)
           submit_dt == IF date.t = "None" THEN clock ELSE date.n
       IN  track' =
             IF ref = 0 - 1 THEN track
             ELSE UpdatedTrack(track, ref, submit_dt, seen)
    /\ i' = i + 1
    /\ UNCHANGED <<pc, webhook_url, interval_min, subs, now_utc, clock, cycle,
                   fetched, sent, track0, fails, notes, same, e2e>>
    /\ UNCHANGED order
    /\ UNCHANGED aside

\* line 178: the update loop is over, the reporting pass begins.
BeginReport ==
    /\ pc = "update"
    /\ i > Len(subs)
    /\ now_utc' = clock
    /\ i' = 1
    /\ pc' = "report"
    /\ UNCHANGED <<webhook_url, interval_min, track, subs, clock, cycle,
                   fetched, sent, track0, fails, notes, same, e2e>>
    /\ UNCHANGED order
    /\ UNCHANGED aside

\* lines 179-217, one record of the reporting loop
ReportRecord ==
    /\ pc = "report"
    /\ i <= Len(subs)
    /\ LET s == subs[i]
           ref == RefOf(s)
       IN  IF ref = 0 - 1 \/ ref \notin DOMAIN track
              \/ ~Changed(track[ref].last_seen_status,
                          track[ref].last_reported_status)
           THEN UNCHANGED <<track, sent, notes, order>>
           ELSE LET info == track[ref]
                    seen == info.last_seen_status
                    el_min == elapsed_minutes(info.submit_time, now_utc)
                    err == IF seen = c_error THEN str(DetailOf(s)) ELSE None
                IN  \E outcome \in slack_post(webhook_url) :
                      /\ sent' = Append(sent, Message(NotificationKind(seen),
                                                      ref, seen, el_min, err,
                                                      outcome))
                      /\ track' = Put(track, ref, Reported(info, seen, outcome))
                      /\ notes' = [notes EXCEPT ![ref] =
                                     [count |-> @.count + 1, last |-> seen]]
                      /\ order' = Posted(order, "status")
    /\ i' = i + 1
    /\ UNCHANGED <<pc, webhook_url, interval_min, subs, now_utc, clock, cycle,
                   fetched, track0, fails, same, e2e>>
    /\ UNCHANGED aside

\* the reporting loop is over
EndReport ==
    /\ pc = "report"
    /\ i > Len(subs)
    /\ pc' = "sleep"
    /\ UNCHANGED <<webhook_url, interval_min, track, subs, i, now_utc, clock,
                   cycle, fetched, sent, track0, fails, notes, same, e2e>>
    /\ UNCHANGED order
    /\ UNCHANGED aside

\* lines 157 and 219: time.sleep(interval_sec)
Sleep ==
    /\ pc = "sleep"
    /\ clock' = clock + interval_sec(interval_min)
    /\ pc' = "fetch"
    /\ UNCHANGED <<webhook_url, interval_min, track, subs, i, now_utc, cycle,
                   fetched, sent, track0, fails, notes, same, e2e>>
    /\ UNCHANGED order
    /\ UNCHANGED aside

InWatcher == {"validate", "authenticate", "startup", "fetch", "update", "report", "sleep"}

\* lines 235-237: Ctrl-C anywhere in run_watcher ends it. The frame of
\* run_watcher is unwound, so its locals (track, subs, now_utc) are gone.
Interrupt ==
    /\ pc \in InWatcher
    /\ pc' = "KeyboardInterrupt"
    /\ track' = <<>>
    /\ subs' = <<>>
    /\ i' = 0
    /\ now_utc' = 0
    /\ track0' = <<>>
    /\ same' = [r \in Refs |-> TRUE]
    /\ e2e' = [r \in Refs |-> 0]
    /\ UNCHANGED <<webhook_url, interval_min, clock, cycle, fetched, sent,
                   fails, notes>>
    /\ UNCHANGED order
    /\ UNCHANGED aside

\* lines 238-239
Shutdown ==
    /\ pc = "KeyboardInterrupt"
    /\ \E outcome \in slack_post(webhook_url) :
          sent' = Append(sent, Message("shutdown", 0, None, 0, None, outcome))
    /\ pc' = AfterShutdown
    /\ UNCHANGED <<webhook_url, interval_min, track, subs, i, now_utc, clock,
                   cycle, fetched, track0, fails, notes, same, e2e>>
    /\ order' = Posted(order, "shutdown")
    /\ UNCHANGED aside

Next ==
    \/ Validate
    \/ Authenticate
    \/ Startup
    \/ FetchOk
    \/ FetchError
    \/ UpdateRecord
    \/ BeginReport
    \/ ReportRecord
    \/ EndReport
    \/ Sleep
    \/ Interrupt
    \/ Shutdown

Spec == Init /\ [][Next]_vars

\* The process is started again after it has ended on an interrupt, with
\* the same arguments: main runs from its first line (lines 233-236) and
\* nothing of the run before is read. The clock and the count of fetches go
\* on; the history of notifications starts anew, and keeps in prev_run what
\* the runs before notified last for each ref.
MaxRuns == 2
Restart ==
    /\ pc = "exit"
    /\ run < MaxRuns
    /\ run' = run + 1
    /\ prev_run' = [r \in Refs |->
                      IF notes[r].last # None THEN notes[r].last ELSE prev_run[r]]
    /\ pc' = "validate"
    /\ track' = <<>>
    /\ subs' = <<>>
    /\ i' = 0
    /\ now_utc' = 0
    /\ fetched' = "none"
    /\ sent' = <<>>
    /\ track0' = <<>>
    /\ fails' = 0
    /\ notes' = [r \in Refs |-> [count |-> 0, last |-> None]]
    /\ same' = [r \in Refs |-> TRUE]
    /\ e2e' = [r \in Refs |-> 0]
    /\ order' = <<>>
    /\ UNCHANGED <<webhook_url, interval_min, clock, cycle>>

NextRestart == Next \/ Restart
SpecRestart == Init /\ [][NextRestart]_vars

\* A step of an iteration other than the fetch: a pass over the records, a
\* post (bounded by its timeout) or the sleep (bounded by the interval).
Running == UpdateRecord \/ BeginReport \/ ReportRecord \/ EndReport \/ Sleep

\* The process goes on running: while it is not interrupted, a step it can
\* take is taken. The fetch has no timeout, so nothing is assumed of it.
\* It is stated of the runs that pass the validation and have a webhook, the
\* ones whose posts can fail.
FairInit == Init /\ interval_min \in 1..MaxInterval /\ webhook_url # ""
FairSpec == FairInit /\ [][Next]_vars /\ WF_vars(Running)

\* One record on its way through one iteration. The state is the one of a
\* watcher with a webhook after a fetch that returned the record alone:
\* its first fetch, or its second fetch when the first one showed
\* submission 1 running and the notification of it was delivered.
InitRecord ==
    /\ pc = "update"
    /\ webhook_url = "https://hooks.slack.com/services/T"
    /\ interval_min = 1
    /\ \E s \in InputRecords : subs = <<s>>
    /\ i = 1
    /\ now_utc = 0
    /\ fetched = "ok"
    /\ sent = <<>>
    /\ fails = 0
    /\ same = [r \in Refs |-> TRUE]
    /\ e2e = [r \in Refs |-> 0]
    /\ prev_run = [r \in Refs |-> None]
    /\ run = 1
    /\ \/ /\ cycle = 1
          /\ clock = StartTime
          /\ track = <<>>
          /\ notes = [r \in InputRefs |-> [count |-> 0, last |-> None]]
          /\ order = <<"startup">>
       \/ /\ cycle = 2
          /\ clock = StartTime + interval_sec(1)
          /\ track = 1 :> [submit_time |-> StartTime,
                           last_seen_status |-> c_running,
                           last_reported_status |-> c_running]
          /\ notes = [r \in InputRefs |->
                        IF r = 1 THEN [count |-> 1, last |-> c_running]
                        ELSE [count |-> 0, last |-> None]]
          /\ order = <<"startup", "status">>
    /\ track0 = track

SpecRecord == InitRecord /\ [][Running]_vars

\* ---------------------------------------------------------------- claims

IntervalSec == interval_min * 60

\* The refs of the current fetch, and the ones first observed in this
\* iteration.
RefsOf(records) == {get_ref(records[k]) : k \in DOMAIN records} \ {0 - 1}
Fresh == DOMAIN track \ DOMAIN track0
FirstStatus(ref) == StatusesOf(subs, ref)[1]
LastStatus(ref) == StatusesOf(subs, ref)[Len(StatusesOf(subs, ref))]
CycleDone == pc = "sleep" /\ fetched = "ok"

\* C1: in a step of the reporting loop that evaluates a tracked ref, a
\* notification is emitted if and only if last_seen_status differs from
\* last_reported_status before the step; the notification is about that
\* ref and status, and after the step last_reported_status equals
\* last_seen_status.
C1_NotifyIffChanged ==
    [][(pc = "report" /\ i' = i + 1 /\ get_ref(subs[i]) # 0 - 1) =>
          LET ref == get_ref(subs[i])
              emitted == Len(sent') = Len(sent) + 1
          IN  /\ emitted <=> (track[ref].last_seen_status
                                 # track[ref].last_reported_status)
              /\ ~emitted => (sent' = sent /\ track' = track)
              /\ emitted =>
                    /\ sent'[Len(sent')].ref = ref
                    /\ sent'[Len(sent')].status = track[ref].last_seen_status
                    /\ track'[ref].last_reported_status
                          = track'[ref].last_seen_status]_vars

\* Both records of a fetch have been evaluated: one was reported, the other
\* was not.
C1_Witness ==
    /\ pc = "report" /\ i > Len(subs) /\ Len(subs) = 2
    /\ get_ref(subs[1]) # 0 - 1 /\ get_ref(subs[2]) # 0 - 1
    /\ Len(sent) = 1

\* An entry that was pre-seeded and whose last record of the first fetch is
\* complete has nothing to report.
SilentStart(ref) == FirstStatus(ref) = c_complete /\ LastStatus(ref) = c_complete

\* C2 (amended): over the successful polls from the first observation of an
\* id on that all return the same records for it, exactly one notification
\* is emitted for the id, in the first of them, unless it was first observed
\* as complete and complete is its status after that poll: then none is.
\* No later poll of the sequence emits one.
C2_OneNotificationOrPreseeded ==
    pc = "sleep" =>
       \A ref \in DOMAIN track :
          same[ref] =>
             /\ notes[ref].count = IF SilentStart(ref) THEN 0 ELSE 1
             /\ (ref \in DOMAIN track0 /\ fetched = "ok") => MessagesOf(ref) = <<>>

\* C2 as stated: exactly one notification, whatever the status.
C2_ExactlyOneAnyStatus ==
    pc = "sleep" => \A ref \in DOMAIN track : same[ref] => notes[ref].count = 1

\* A later poll has returned the same records for a ref that was notified
\* once.
C2_Witness ==
    /\ CycleDone
    /\ \E ref \in DOMAIN track0 :
          same[ref] /\ notes[ref].count = 1 /\ RecordsOf(subs, ref) # <<>>

\* C3 (amended): an entry is created with last_reported_status complete if
\* the observed status is complete and None otherwise. An id first observed
\* as complete gets no complete notification in that iteration, and none at
\* all unless a later record of the same fetch gives it another status,
\* which is then notified once; an id first observed with any other status
\* gets exactly one notification in that iteration.
C3_Preseeding ==
    /\ [][(pc = "update" /\ i' = i + 1 /\ get_ref(subs[i]) # 0 - 1
             /\ get_ref(subs[i]) \notin DOMAIN track) =>
            LET e == track'[get_ref(subs[i])]
            IN  /\ e.last_seen_status = status_text(subs[i])
                /\ e.last_reported_status =
                      IF status_text(subs[i]) = c_complete THEN c_complete ELSE None]_vars
    /\ [](CycleDone =>
            \A ref \in Fresh :
               LET msgs == MessagesOf(ref)
               IN  IF FirstStatus(ref) = c_complete
                   THEN IF LastStatus(ref) = c_complete THEN msgs = <<>>
                        ELSE Len(msgs) = 1 /\ msgs[1].status = LastStatus(ref)
                   ELSE Len(msgs) = 1)

\* C3 as stated: an id first observed as complete gets no notification in
\* the iteration of its first appearance.
C3_NoNotificationWhenFirstComplete ==
    CycleDone =>
       \A ref \in Fresh : FirstStatus(ref) = c_complete => MessagesOf(ref) = <<>>

\* An iteration has first observed one ref as complete, silently, and the
\* other as not complete, with a notification.
C3_Witness ==
    /\ CycleDone
    /\ \E ref \in Fresh : FirstStatus(ref) = c_complete /\ MessagesOf(ref) = <<>>
    /\ \E ref \in Fresh : FirstStatus(ref) = c_error /\ Len(MessagesOf(ref)) = 1

\* C4: in an iteration whose fetch raises, up to its sleep and the next
\* fetch, track is what it was when the last successful iteration ended,
\* and no notification is emitted.
C4_FetchFailureIsolation ==
    (fetched = "error" /\ pc \in {"sleep", "fetch"}) =>
       /\ track = track0
       /\ sent = <<>>

\* A fetch has failed while entries were tracked.
C4_Witness ==
    fetched = "error" /\ pc = "sleep" /\ DOMAIN track # {} /\ fails = 2

\* C5: in the first successful iteration after one or more failed fetches,
\* a tracked id whose status in the fetch differs from the status last
\* reported before the failures gets exactly one notification, of that
\* status; one whose status is the reported one gets none.
C5_NoMissedNotification ==
    (CycleDone /\ fails > 0) =>
       \A ref \in DOMAIN track0 \cap RefsOf(subs) :
          IF LastStatus(ref) # track0[ref].last_reported_status
          THEN /\ Len(MessagesOf(ref)) = 1
               /\ MessagesOf(ref)[1].status = LastStatus(ref)
          ELSE MessagesOf(ref) = <<>>

\* After a failed fetch a changed status has been notified.
C5_Witness ==
    /\ CycleDone /\ fails = 1
    /\ \E ref \in DOMAIN track0 :
          /\ track0[ref].last_reported_status = c_running
          /\ Len(MessagesOf(ref)) = 1
          /\ MessagesOf(ref)[1].status = c_complete

IsStatus(m) == m.kind \notin {"startup", "shutdown"}

\* C6: whatever the outcome of a post (delivered, failed, no webhook), the
\* status it was about is recorded as reported, no id is posted twice in an
\* iteration, and when the reporting pass ends every id of the fetch has
\* been processed: its last_reported_status equals its last_seen_status.
C6_DeliveryFailureSwallowed ==
    (pc = "report" \/ CycleDone) =>
       /\ \A k \in DOMAIN sent :
             IsStatus(sent[k]) =>
                track[sent[k].ref].last_reported_status = sent[k].status
       /\ \A ref \in Refs : Len(MessagesOf(ref)) <= 1
       /\ CycleDone =>
             \A ref \in RefsOf(subs) :
                track[ref].last_reported_status = track[ref].last_seen_status

\* The first post of an iteration failed and the second id was still
\* reported.
C6_Witness ==
    /\ CycleDone /\ Len(sent) = 2
    /\ sent[1].outcome = "failed"
    /\ sent[2].ref # sent[1].ref

\* C7: a notification for an id never carries the status of the id's
\* previous notification, nor the status already recorded as reported.
C7_OneNotificationPerChange ==
    [][\A ref \in Refs :
          notes'[ref] # notes[ref] =>
             /\ notes'[ref].count = notes[ref].count + 1
             /\ notes'[ref].last # notes[ref].last
             /\ ref \in DOMAIN track
             /\ notes'[ref].last # track[ref].last_reported_status]_vars

\* An id has been notified three times.
C7_Witness == \E ref \in Refs : notes[ref].count = 3

\* C8: when an iteration ends, every tracked id has last_reported_status
\* equal to last_seen_status, or got no notification in the iteration.
C8_MonotonicReporting ==
    pc = "sleep" =>
       \A ref \in DOMAIN track :
          \/ track[ref].last_reported_status = track[ref].last_seen_status
          \/ MessagesOf(ref) = <<>>

\* An iteration has notified one id and has not seen the other tracked id.
C8_Witness ==
    /\ CycleDone
    /\ \E ref \in DOMAIN track : Len(MessagesOf(ref)) = 1
    /\ \E ref \in DOMAIN track : ref \notin RefsOf(subs)

\* C9: an id first polled as running gets one running notification with
\* elapsed >= 1 in that iteration; when the next poll shows it complete and
\* reports one interval (and less than a minute more) after the submission,
\* it gets one complete notification whose elapsed minutes are
\* interval_min; every later poll that returns the same record emits
\* nothing for it.
C9_EndToEnd ==
    CycleDone =>
       \A ref \in DOMAIN track :
          LET msgs == MessagesOf(ref)
              age == now_utc - track[ref].submit_time
          IN  /\ e2e[ref] = 1 =>
                    /\ Len(msgs) = 1
                    /\ msgs[1].kind = "hourglass" /\ msgs[1].status = c_running
                    /\ msgs[1].el_min >= 1
                    /\ notes[ref].count = 1
              /\ (e2e[ref] = 2 /\ age >= IntervalSec /\ age < IntervalSec + 60) =>
                    /\ Len(msgs) = 1
                    /\ msgs[1].kind = "complete" /\ msgs[1].status = c_complete
                    /\ msgs[1].el_min = interval_min
                    /\ notes[ref].count = 2
              /\ e2e[ref] = 3 => (msgs = <<>> /\ notes[ref].count = 2)

\* The scenario has run to its third poll with an interval of 2 minutes and
\* every poll on time.
C9_Witness ==
    /\ CycleDone /\ interval_min = 2
    /\ \E ref \in DOMAIN track :
          e2e[ref] = 3 /\ now_utc - track[ref].submit_time = 2 * IntervalSec

\* C10: with interval_min < 1 run_watcher raises before anything else: no
\* fetch, no tracked entry, no startup or status notification; and the
\* ValueError is raised for no interval_min >= 1.
C10_FailFast ==
    /\ interval_min < 1 =>
          /\ pc \in {"validate", "ValueError", "KeyboardInterrupt", "exit"}
          /\ cycle = 0 /\ fetched = "none"
          /\ track = <<>> /\ subs = <<>>
          /\ \A k \in DOMAIN sent : sent[k].kind = "shutdown"
          /\ \A ref \in Refs : notes[ref].count = 0
    /\ pc = "ValueError" => interval_min < 1

\* run_watcher has raised for an interval of 0.
C10_Witness == pc = "ValueError" /\ interval_min = 0

LoopStates == {"fetch", "update", "report", "sleep"}

\* C11: a failed fetch is followed by the sleep; the sleep lasts the
\* configured interval and is followed by the next fetch attempt, after any
\* number of failures in a row; only an interrupt takes the process out of
\* the loop; and the running process always comes from any point of an
\* iteration to its next fetch attempt, unless it is interrupted.
C11_RetryForever ==
    /\ [][(pc = "fetch" /\ fetched' = "error" /\ cycle' = cycle + 1)
             => pc' = "sleep"]_vars
    /\ [][(pc = "sleep" /\ pc' # "KeyboardInterrupt")
             => (pc' = "fetch" /\ clock' = clock + 60 * interval_min)]_vars
    /\ [][(pc \in LoopStates)
             => (pc' \in LoopStates \cup {"KeyboardInterrupt"})]_vars
    /\ (pc \in {"update", "report", "sleep"})
          ~> (pc \in {"fetch", "KeyboardInterrupt"})

\* After three failed fetches in a row the process is at a fetch again.
C11_Witness == pc = "fetch" /\ fetched = "error" /\ fails = 3

ShutdownPosted == \E k \in DOMAIN order : order[k] = "shutdown"

\* C12: the shutdown post is made only after an interrupt and only once, it
\* is the last post, nothing is fetched, updated or notified after it, an
\* interrupted process always can make it, and the startup post comes
\* before every status notification.
C12_ShutdownOrdering ==
    /\ [](/\ Cardinality({k \in DOMAIN order : order[k] = "shutdown"}) <= 1
          /\ ShutdownPosted =>
                /\ order[Len(order)] = "shutdown"
                /\ sent # <<>> /\ sent[Len(sent)].kind = "shutdown"
                /\ \A k \in 1..(Len(sent) - 1) : sent[k].kind # "shutdown"
          /\ pc \in InWatcher => ~ShutdownPosted
          /\ pc = "KeyboardInterrupt" => (~ShutdownPosted /\ ENABLED Shutdown)
          /\ pc = "exit" => ShutdownPosted
          /\ (\E k \in DOMAIN order : order[k] = "status") => order[1] = "startup"
          /\ (\E ref \in Refs : notes[ref].count > 0) =>
                (\E k \in DOMAIN order : order[k] = "status"))
    /\ [][ShutdownPosted =>
             (cycle' = cycle /\ track' = track /\ subs' = subs
                /\ notes' = notes /\ sent' = sent)]_vars

\* An interrupt in the middle of a reporting pass: startup, a status
\* notification, then the shutdown post and the exit.
C12_Witness ==
    /\ pc = "exit"
    /\ order = <<"startup", "status", "shutdown">>
    /\ Len(sent) = 2 /\ sent[1].kind = "hourglass"

\* C13: the submit_time of a tracked id is the time of its first
\* observation (the date of that record, or the clock when it has none) and
\* no later step of the loop changes it or drops the entry, whatever date
\* the later records carry; a record of an id already tracked changes the
\* last_seen_status of the entry and nothing else.
C13_SubmitTimeFixed ==
    [][/\ \A ref \in DOMAIN track :
             /\ pc' \in LoopStates => ref \in DOMAIN track'
             /\ ref \in DOMAIN track' =>
                   track'[ref].submit_time = track[ref].submit_time
       /\ \A ref \in DOMAIN track' \ DOMAIN track :
             /\ pc = "update" /\ i \in DOMAIN subs /\ ref = get_ref(subs[i])
             /\ LET date == get_attr(subs[i], <<"_date", "date">>, PyNone)
                IN  track'[ref].submit_time =
                       IF date = PyNone THEN clock ELSE date.n
       /\ (pc = "update" /\ pc' = "update") =>
             \A ref \in DOMAIN track :
                /\ track'[ref].last_reported_status =
                      track[ref].last_reported_status
                /\ track'[ref].last_seen_status =
                      IF ref = get_ref(subs[i]) THEN status_text(subs[i])
                      ELSE track[ref].last_seen_status]_vars

\* An id first seen in a record without a date, and so timed by the clock,
\* has just been seen again in a record that carries a date.
C13_Witness ==
    /\ pc = "update" /\ i > 1 /\ cycle > 1
    /\ LET s == subs[i - 1]
       IN  /\ get_attr(s, <<"_date", "date">>, PyNone) = PyTime(LaterDate)
           /\ get_ref(s) \in DOMAIN track0
           /\ track[get_ref(s)].submit_time # LaterDate

\* The seconds from the submit time of the id of a status notification to
\* the "now" of the reporting pass that posted it.
AgeAt(m) == now_utc - track[m.ref].submit_time

\* C14: the elapsed minutes of every status notification are the whole
\* minutes from the submit time of its id to the "now" of its reporting
\* pass, and 1 when that is less than a minute, zero or negative.
C14_ElapsedMinutes ==
    pc \in {"report", "sleep", "fetch"} =>
       \A k \in DOMAIN sent :
          sent[k].kind \notin {"startup", "shutdown"} =>
             /\ sent[k].el_min >= 1
             /\ AgeAt(sent[k]) < 60 => sent[k].el_min = 1
             /\ AgeAt(sent[k]) >= 60 =>
                   /\ 60 * sent[k].el_min <= AgeAt(sent[k])
                   /\ AgeAt(sent[k]) < 60 * sent[k].el_min + 60

\* A reporting pass has posted for an id whose submit time is after the
\* "now" of the pass.
C14_Witness ==
    /\ pc = "sleep"
    /\ \E k \in DOMAIN sent :
          /\ sent[k].kind \notin {"startup", "shutdown"}
          /\ AgeAt(sent[k]) < 0 /\ sent[k].el_min = 1

\* The reference of a record as the code reads it, and its coercion int(r).
RawRef(s) == get_attr(s, <<"_ref", "ref">>, PyNone)
Coerces(r) == r.t = "int" \/ (r.t = "str" /\ IntLiteral(r.s))
CoercedInt(r) == IF r.t = "int" THEN r.n ELSE IntOfLiteral(r.s)

\* The id the extraction rule gives a reference that has digits.
RuleId(r) ==
    IF Coerces(r) THEN CoercedInt(r) ELSE DecimalValue(OnlyDigits(str(r)))

\* C15: once the update pass is over, the record of the fetch is tracked
\* under its reference coerced to an integer, or else under the integer
\* its digit characters spell; it is left out (no entry made or changed, no
\* notification) exactly when its reference has no digit; and a record
\* whose reference coerces to an integer is tracked.
C15_IdExtraction ==
    pc \in {"report", "sleep", "fetch"} =>
       LET r == RawRef(subs[1])
       IN  /\ OnlyDigits(str(r)) = <<>> =>
                /\ track = track0
                /\ pc # "report" => sent = <<>>
           /\ OnlyDigits(str(r)) # <<>> =>
                /\ DOMAIN track = DOMAIN track0 \cup {RuleId(r)}
                /\ track[RuleId(r)].last_seen_status = status_text(subs[1])
           /\ Coerces(r) => CoercedInt(r) \in DOMAIN track

\* The rule at work on a reference that does not coerce: "s-9" is 9.
C15_Witness ==
    /\ pc = "sleep"
    /\ RawRef(subs[1]) = PyStr(<<"s", "-", "9">>)
    /\ DOMAIN track = {9}
    /\ Len(sent) = 1 /\ sent[1].ref = 9

\* The status of a record as the code reads it, and its label: the name of
\* a member of the enumeration, or the string less a leading qualifier.
RawStatus(s) == get_attr(s, <<"_status", "status">>, PyStr(<<>>))
RawLabel(st) ==
    IF st.t = "enum" THEN st.s
    ELSE IF StartsAt(st.s, 1, c_SubmissionStatus)
         THEN SubSeq(st.s, Len(c_SubmissionStatus) + 1, Len(st.s))
         ELSE st.s

\* The canonical status of a label, by the table of the specification.
Canonical(label) ==
    IF Lower(label) \in {c_completed, c_complete} THEN c_complete
    ELSE IF Lower(label) = c_uploading THEN c_pending
    ELSE Lower(label)

\* C16: status_text gives every status its label without the qualifier, in
\* lower case, with completed and complete as complete and uploading as
\* pending; the update pass stores that; and a record whose label is
\* complete or completed in any letter case is pre-seeded without a
\* notification when its id is new, and gets the complete notification when
\* its id was tracked as running.
C16_StatusNormalization ==
    LET s == subs[1]
        ref == get_ref(s)
        want == Canonical(RawLabel(RawStatus(s)))
    IN  /\ status_text(s) = want
        /\ (ref # 0 - 1 /\ pc \in {"report", "sleep", "fetch"}) =>
              track[ref].last_seen_status = want
        /\ (ref # 0 - 1 /\ want = c_complete /\ ref \notin DOMAIN track0) =>
              /\ pc = "report" => track[ref].last_reported_status = c_complete
              /\ sent = <<>>
        /\ (ref # 0 - 1 /\ want = c_complete /\ ref \in DOMAIN track0
               /\ pc \in {"sleep", "fetch"}) =>
              /\ Len(sent) = 1
              /\ sent[1].kind = "complete" /\ sent[1].status = c_complete

\* A submission tracked as running is fetched with the status "CoMpLeTeD"
\* and the complete notification has been posted.
C16_Witness ==
    /\ pc = "sleep"
    /\ RawStatus(subs[1]) = PyStr(<<"C", "o", "M", "p", "L", "e", "T", "e", "D">>)
    /\ 1 \in DOMAIN track0
    /\ Len(sent) = 1 /\ sent[1].kind = "complete"

\* The error detail of a record: its description under the first of the
\* two names that holds a usable one.
DescriptionOf(s) ==
    IF "_error_description" \in DOMAIN s
          /\ s["_error_description"] \notin {PyNone, PyStr(<<>>), PyStr(<<"-">>)}
    THEN s["_error_description"].s
    ELSE IF "errorDescription" \in DOMAIN s
          /\ s["errorDescription"] \notin {PyNone, PyStr(<<>>), PyStr(<<"-">>)}
    THEN s["errorDescription"].s
    ELSE c_no_detail

\* C17: every status notification carries the last_seen_status of its id
\* and has the one shape that status calls for: the hourglass line for
\* pending, queued and running, the rich message for complete, the error
\* line with the error detail of the record for error, and the
\* informational line for every other status.
C17_ShapeByStatus ==
    \A k \in DOMAIN sent :
       LET m == sent[k]
       IN  /\ m.kind \in {"hourglass", "complete", "error", "info"}
           /\ m.status = track[m.ref].last_seen_status
           /\ m.kind = "hourglass" <=> m.status \in {c_pending, c_queued, c_running}
           /\ m.kind = "complete" <=> m.status = c_complete
           /\ m.kind = "error" <=> m.status = c_error
           /\ m.kind = "error" => m.detail = DescriptionOf(subs[1])
           /\ m.kind # "error" => m.detail = None

\* An error notification that carries the description of the record.
C17_Witness ==
    /\ pc = "sleep"
    /\ Len(sent) = 1 /\ sent[1].kind = "error" /\ sent[1].detail = c_oom

\* The first successful cycle of a run after a restart is over.
FirstCycleAfterRestart == run > 1 /\ CycleDone /\ track0 = <<>>

\* C18 (amended): a run after a restart starts with nothing tracked, and
\* its first successful cycle emits exactly one notification, of the status
\* of the last record, for every fetched id, whatever the runs before
\* notified for it, except for the ids whose first and last records in
\* that fetch are both complete, for which it emits none.
C18_RestartRenotifies ==
    /\ (run > 1 /\ pc \in InWatcher /\ fetched = "none") => track = <<>>
    /\ FirstCycleAfterRestart =>
          \A ref \in RefsOf(subs) :
             /\ ref \in DOMAIN track
             /\ IF SilentStart(ref) THEN MessagesOf(ref) = <<>>
                ELSE /\ Len(MessagesOf(ref)) = 1
                     /\ MessagesOf(ref)[1].status = LastStatus(ref)

\* C18 as stated: one notification for every fetched id whose status is not
\* complete, none for the ids that are complete.
C18_NoneForComplete ==
    FirstCycleAfterRestart =>
       \A ref \in RefsOf(subs) :
          Len(MessagesOf(ref)) = IF LastStatus(ref) = c_complete THEN 0 ELSE 1

\* The run before notified running for an id; the first cycle after the
\* restart finds it running still and notifies running again.
C18_Witness ==
    /\ FirstCycleAfterRestart
    /\ \E ref \in RefsOf(subs) :
          /\ prev_run[ref] = c_running
          /\ LastStatus(ref) = c_running
          /\ Len(MessagesOf(ref)) = 1
          /\ MessagesOf(ref)[1].status = c_running

\* Nothing is left to report for a tracked ref.
Settled(ref) ==
    track[ref].last_reported_status = track[ref].last_seen_status

\* C19: when a cycle is over, after a fetch that returned or failed, every
\* tracked ref is settled, the ones absent from the fetch too; and all
\* along the reporting pass every tracked ref that is not settled is the
\* ref of a record the pass has yet to visit, so the pass over the records
\* of the fetch leaves out no ref that a pass over all tracked refs would
\* report.
C19_AllReportedAtCycleEnd ==
    /\ pc \in {"sleep", "fetch"} => \A ref \in DOMAIN track : Settled(ref)
    /\ pc = "report" =>
          \A ref \in DOMAIN track :
             ~Settled(ref) => ref \in RefsOf(SubSeq(subs, i, Len(subs)))

\* A cycle is over in which a ref was notified while another tracked ref
\* was absent from the fetch.
C19_Witness ==
    /\ CycleDone
    /\ DOMAIN track \ RefsOf(subs) # {}
    /\ \E ref \in RefsOf(subs) : Len(MessagesOf(ref)) = 1

\* C20: nothing is posted while the update pass runs; when it is over the
\* last_seen_status of every fetched ref is the status of its last record
\* in the fetch; and the cycle posts at most one notification for the ref,
\* which carries that status.
C20_OneNotificationPerCycle ==
    /\ pc = "update" => sent = <<>>
    /\ (pc \in {"report", "sleep"} /\ fetched = "ok") =>
          \A ref \in RefsOf(subs) :
             /\ track[ref].last_seen_status = LastStatus(ref)
             /\ Len(MessagesOf(ref)) <= 1
             /\ \A k \in DOMAIN MessagesOf(ref) :
                   MessagesOf(ref)[k].status = LastStatus(ref)

\* A fetch held two records of one ref with different statuses and the
\* cycle has posted once for it, the status of the second.
C20_Witness ==
    /\ CycleDone
    /\ Len(subs) = 2
    /\ \E ref \in RefsOf(subs) :
          /\ Len(StatusesOf(subs, ref)) = 2
          /\ FirstStatus(ref) # LastStatus(ref)
          /\ Len(MessagesOf(ref)) = 1
          /\ MessagesOf(ref)[1].status = LastStatus(ref)

====
